---- MODULE Spec2Model ----
(***************************************************************************)
(* lite-rpc: a transport-less JSON-RPC 2.0 dispatcher.                     *)
(*                                                                         *)
(* The model follows src/src/index.ts (lines 1-289, the current version of *)
(* the library) and src/src/errors.ts:                                     *)
(*   - the LiteRPCError constructor,                                       *)
(*   - the registry builder group() with add and merge,                    *)
(*   - process(request, app, context), cut at its awaits.                  *)
(*                                                                         *)
(* JavaScript values are strings; Undefined and Null are the tokens for    *)
(* the values undefined and null.  A thrown value is a record with its     *)
(* class, a reply is a record whose DOMAIN is the set of its keys.         *)
(***************************************************************************)
EXTENDS Integers, Sequences, FiniteSets, TLC

VARIABLES
    arrs,     \* the method arrays allocated so far; a group is the index of its array
    lastOp,   \* the last add/merge call and how it ended
    made,     \* the last `new LiteRPCError(code, message)` and how it ended
    app,      \* the app instance handed to process: config.group.methods
    calls     \* the process calls: position, request, promises

vars == <<arrs, lastOp, made, app, calls>>

----------------------------------------------------------------------------
(* Bounds of the model.                                                    *)

\* arrays (groups) the setup phase allocates
MaxGroups == 4
\* process calls on the app
MaxCalls == 1
\* raw codes tried on each side of the application range
Margin == 3
\* process calls in flight at once in the specification of concurrent calls
MaxConc == 2

----------------------------------------------------------------------------
(* JavaScript values.                                                      *)

Undefined == "undefined"
Null == "null"

\* the value process resolves to for "no reply"
NullResult == [null |-> TRUE]

\* errors.ts: RPCErrorCodes
RPCErrorCodes ==
    [PARSE_ERROR |-> -32700,
     INVALID_REQUEST |-> -32600,
     METHOD_NOT_FOUND |-> -32601,
     INVALID_PARAMS |-> -32602,
     INTERNAL_ERROR |-> -32603]

\* the range check of the LiteRPCError constructor
MinAppCode == -32099
MaxAppCode == -32000

\* a code argument: a symbolic name (typeof code === "string") or a number
CodeName(n) == [type |-> "string", name |-> n, num |-> 0]
CodeNum(k) == [type |-> "number", name |-> "", num |-> k]

\* thrown values, by class
NoError == [class |-> "none", code |-> 0, message |-> ""]
ErrorOf(m) == [class |-> "Error", code |-> 0, message |-> m]
LiteRPCErrorOf(c, m) == [class |-> "LiteRPCError", code |-> c, message |-> m]
NonError(v) == [class |-> "NonError", code |-> 0, message |-> v]

\* e instanceof LiteRPCError, e instanceof Error (LiteRPCError extends Error)
InstanceOfLiteRPCError(e) == e.class = "LiteRPCError"

\* mutant: every thrown value counts as an Error
InstanceOfError_any(e) == TRUE

InstanceOfError(e) == e.class \in {"LiteRPCError", "Error"}

----------------------------------------------------------------------------
(* new LiteRPCError(code, message)                                         *)

\* mutant: the range check with the upper bound off by one
LiteRPCError_offByOne(code, message) ==
    LET resolved == IF code.type = "string" THEN RPCErrorCodes[code.name] ELSE code.num
    IN  IF resolved < MinAppCode \/ resolved >= MaxAppCode
        THEN [threw |-> TRUE, value |-> ErrorOf("Invalid error code")]
        ELSE [threw |-> FALSE, value |-> LiteRPCErrorOf(resolved, message)]

\* the constructor: the instance, or the Error it throws
LiteRPCError(code, message) ==
    LET resolved == IF code.type = "string" THEN RPCErrorCodes[code.name] ELSE code.num
    IN  IF resolved < MinAppCode \/ resolved > MaxAppCode
        THEN [threw |-> TRUE, value |-> ErrorOf("Invalid error code")]
        ELSE [threw |-> FALSE, value |-> LiteRPCErrorOf(resolved, message)]

----------------------------------------------------------------------------
(* group(): methods, add, merge                                            *)

\* the validator add supplies when none is given: { parse: () => null }
DefaultSchema == "parseNull"

\* methods.some(m => m.name === name)
\* mutant: only the last descriptor is compared
existing_lastOnly(methods, name) ==
    Len(methods) > 0 /\ methods[Len(methods)].name = name

existing(methods, name) ==
    \E i \in 1..Len(methods) : methods[i].name = name

\* add(name, ...args): args is <<handler>> or <<schema, handler>>
add(methods, name, args) ==
    IF existing(methods, name)
    THEN [threw |-> TRUE, methods |-> <<>>]
    ELSE LET schema == IF Len(args) = 2 THEN args[1] ELSE DefaultSchema
             handler == IF Len(args) = 2 THEN args[2] ELSE args[1]
         IN  [threw |-> FALSE,
              methods |-> methods \o
                          <<[name |-> name, schema |-> schema, handler |-> handler]>>]

\* merge(app): group([...methods, ...app.methods])
\* mutant: the argument's methods are forgotten
merge_receiverOnly(methods, other) == methods

merge(methods, other) == methods \o other

\* the set of names of a method array
Names(methods) == {methods[i].name : i \in 1..Len(methods)}

\* no two descriptors of the array share a name
Unique(methods) ==
    \A i, j \in 1..Len(methods) : methods[i].name = methods[j].name => i = j

----------------------------------------------------------------------------
(* The inputs of the setup phase.                                          *)

MethodNames == {"a", "b", "c"}

\* the argument lists the application passes to add
AddArgs == {<<"h1">>, <<"zod", "h2">>}

NoOp == [op |-> "none", recv |-> 0, other |-> 0, name |-> "", threw |-> FALSE, ret |-> 0]

\* g.add(name, ...args)
\* mutant: the descriptor is pushed onto the receiver's own array
Add_push(g, name, args) ==
    LET r == add(arrs[g], name, args)
    IN  /\ arrs' = IF r.threw THEN arrs ELSE [arrs EXCEPT ![g] = r.methods]
        /\ lastOp' = [op |-> "add", recv |-> g, other |-> 0, name |-> name,
                      threw |-> r.threw,
                      ret |-> IF r.threw THEN 0 ELSE g]
        /\ UNCHANGED <<made, app, calls>>

Add(g, name, args) ==
    LET r == add(arrs[g], name, args)
    IN  /\ r.threw \/ Len(arrs) < MaxGroups
        /\ arrs' = IF r.threw THEN arrs ELSE Append(arrs, r.methods)
        /\ lastOp' = [op |-> "add", recv |-> g, other |-> 0, name |-> name,
                      threw |-> r.threw,
                      ret |-> IF r.threw THEN 0 ELSE Len(arrs) + 1]
        /\ UNCHANGED <<made, app, calls>>

\* g.merge(o)
Merge(g, o) ==
    /\ Len(arrs) < MaxGroups
    /\ arrs' = Append(arrs, merge(arrs[g], arrs[o]))
    /\ lastOp' = [op |-> "merge", recv |-> g, other |-> o, name |-> "",
                  threw |-> FALSE, ret |-> Len(arrs) + 1]
    /\ UNCHANGED <<made, app, calls>>

NoApp == [config |-> [group |-> [methods |-> <<>>]]]
NoMade == [code |-> CodeNum(0), message |-> "", threw |-> FALSE, value |-> NoError]

\* after group(): one empty array
InitGroup ==
    /\ arrs = << <<>> >>
    /\ lastOp = NoOp
    /\ made = NoMade
    /\ app = NoApp
    /\ calls = <<>>

NextGroup ==
    \/ \E g \in 1..Len(arrs), name \in MethodNames, args \in AddArgs : Add(g, name, args)
    \/ \E g, o \in 1..Len(arrs) : Merge(g, o)

SpecGroup == InitGroup /\ [][NextGroup]_vars

----------------------------------------------------------------------------
(* The inputs of the constructor.                                          *)

Messages == {"boom", "Could not find that user"}

CodeArgs ==
    {CodeName(n) : n \in DOMAIN RPCErrorCodes}
    \cup {CodeNum(k) : k \in (MinAppCode - Margin)..(MaxAppCode + Margin)}
    \cup {CodeNum(RPCErrorCodes[n]) : n \in DOMAIN RPCErrorCodes}

\* new LiteRPCError(code, message)
Construct(code, message) ==
    LET r == LiteRPCError(code, message)
    IN  /\ made' = [code |-> code, message |-> message, threw |-> r.threw, value |-> r.value]
        /\ UNCHANGED <<arrs, lastOp, app, calls>>

InitErr ==
    /\ arrs = <<>>
    /\ lastOp = NoOp
    /\ made = NoMade
    /\ app = NoApp
    /\ calls = <<>>

NextErr == \E code \in CodeArgs, message \in Messages : Construct(code, message)

SpecErr == InitErr /\ [][NextErr]_vars

----------------------------------------------------------------------------
(* process(request, app, context)                                          *)

\* a promise: pending, fulfilled with a value, rejected with a reason
Unsettled == [status |-> "pending"]
Fulfilled(v) == [status |-> "fulfilled", value |-> v]
Rejected(e) == [status |-> "rejected", reason |-> e]

\* reply(result): { jsonrpc: "2.0", ...result }
\* mutant: the version field is left out
reply_noVersion(result) == result

reply(result) == result @@ [jsonrpc |-> "2.0"]

\* methods.find(p => p.name === request.method): the first match, 0 for undefined
find(methods, name) ==
    IF \E i \in 1..Len(methods) : methods[i].name = name
    THEN CHOOSE i \in 1..Len(methods) :
             /\ methods[i].name = name
             /\ \A j \in 1..(i - 1) : methods[j].name # name
    ELSE 0

\* if (request.id): undefined and the empty string are falsy
Truthy(v) == v # Undefined /\ v # ""

\* method === undefined: the reply, or null for a request without id
methodNotFound(request) ==
    IF Truthy(request.id)
    THEN reply([id |-> request.id,
                error |-> [code |-> RPCErrorCodes.METHOD_NOT_FOUND,
                           message |-> "Method not found"]])
    ELSE NullResult

\* schema.parse(value): what the validator may do with the raw params.
\* The validator add supplies returns null; a validator of the application
\* returns the value, returns a converted value, or throws.
\* mutant: without a validator the raw params are passed on
parse_passThrough(schema, value) ==
    IF schema = DefaultSchema
    THEN {[threw |-> FALSE, value |-> value]}
    ELSE {[threw |-> FALSE, value |-> value],
          [threw |-> FALSE, value |-> "parsed"],
          [threw |-> TRUE, value |-> ErrorOf("Invalid params")]}

parse(schema, value) ==
    IF schema = DefaultSchema
    THEN {[threw |-> FALSE, value |-> Null]}
    ELSE {[threw |-> FALSE, value |-> value],
          [threw |-> FALSE, value |-> "parsed"],
          [threw |-> TRUE, value |-> ErrorOf("Invalid params")]}

\* what a handler of the application does when it is called
Resolve(v) == [kind |-> "resolve", value |-> v, code |-> CodeNum(0), message |-> ""]
ThrowNew(c, m) == [kind |-> "throwNew", value |-> Undefined, code |-> c, message |-> m]
ThrowError(m) == [kind |-> "throwError", value |-> Undefined, code |-> CodeNum(0), message |-> m]
ThrowValue(v) == [kind |-> "throwValue", value |-> v, code |-> CodeNum(0), message |-> ""]
NoAct == [kind |-> "none", value |-> Undefined, code |-> CodeNum(0), message |-> ""]

\* the promise of the application's handler, settled
handlerPromise(act) ==
    CASE act.kind = "resolve" -> Fulfilled(act.value)
      [] act.kind = "throwNew" -> Rejected(LiteRPCError(act.code, act.message).value)
      [] act.kind = "throwError" -> Rejected(ErrorOf(act.message))
      [] act.kind = "throwValue" -> Rejected(NonError(act.value))

\* the handler add stores: await handler(data), undefined becomes null
\* mutant: the result is passed on as it is
wrapper_noNormalise(p) == p

wrapper(p) ==
    IF p.status = "fulfilled" /\ p.value = Undefined THEN Fulfilled(Null) ELSE p

\* after `await run`: what process returns, or that it calls onError.
\* mutant: the notification branch has no try/catch
afterRun_noCatch(request, run) ==
    IF request.id = Undefined
    THEN [next |-> "return",
          ret |-> IF run.status = "rejected" THEN Rejected(run.reason)
                  ELSE Fulfilled(NullResult)]
    ELSE IF run.status = "fulfilled"
    THEN [next |-> "return",
          ret |-> Fulfilled(reply([id |-> request.id, result |-> run.value]))]
    ELSE IF InstanceOfLiteRPCError(run.reason)
    THEN [next |-> "return",
          ret |-> Fulfilled(reply([id |-> request.id,
                                   error |-> [code |-> run.reason.code,
                                              message |-> run.reason.message]]))]
    ELSE IF InstanceOfError(run.reason)
    THEN [next |-> "onError", ret |-> Unsettled, arg |-> run.reason]
    ELSE [next |-> "return",
          ret |-> Fulfilled(reply([id |-> request.id,
                                   error |-> [code |-> RPCErrorCodes.INTERNAL_ERROR,
                                              message |-> "Something went wrong"]]))]

\* mutant: every Error goes to onError, a LiteRPCError too
afterRun_errorFirst(request, run) ==
    IF request.id = Undefined
    THEN [next |-> "return", ret |-> Fulfilled(NullResult)]
    ELSE IF run.status = "fulfilled"
    THEN [next |-> "return",
          ret |-> Fulfilled(reply([id |-> request.id, result |-> run.value]))]
    ELSE IF InstanceOfError(run.reason)
    THEN [next |-> "onError", ret |-> Unsettled, arg |-> run.reason]
    ELSE [next |-> "return",
          ret |-> Fulfilled(reply([id |-> request.id,
                                   error |-> [code |-> RPCErrorCodes.INTERNAL_ERROR,
                                              message |-> "Something went wrong"]]))]

afterRun(request, run) ==
    IF request.id = Undefined
    THEN [next |-> "return", ret |-> Fulfilled(NullResult)]
    ELSE IF run.status = "fulfilled"
    THEN [next |-> "return",
          ret |-> Fulfilled(reply([id |-> request.id, result |-> run.value]))]
    ELSE IF InstanceOfLiteRPCError(run.reason)
    THEN [next |-> "return",
          ret |-> Fulfilled(reply([id |-> request.id,
                                   error |-> [code |-> run.reason.code,
                                              message |-> run.reason.message]]))]
    ELSE IF InstanceOfError(run.reason)
    THEN [next |-> "onError", ret |-> Unsettled, arg |-> run.reason]
    ELSE [next |-> "return",
          ret |-> Fulfilled(reply([id |-> request.id,
                                   error |-> [code |-> RPCErrorCodes.INTERNAL_ERROR,
                                              message |-> "Something went wrong"]]))]

\* after `await app.config.onError(e)`: the reply, or the mapper's rejection
\* mutant: the mapper's answer is dropped for the hardcoded internal error
afterOnError_hardcoded(request, mapped) ==
    IF mapped.status = "fulfilled"
    THEN Fulfilled(reply([id |-> request.id,
                          error |-> [code |-> RPCErrorCodes.INTERNAL_ERROR,
                                     message |-> "Something went wrong"]]))
    ELSE Rejected(mapped.reason)

afterOnError(request, mapped) ==
    IF mapped.status = "fulfilled"
    THEN Fulfilled(reply([id |-> request.id, error |-> mapped.value]))
    ELSE Rejected(mapped.reason)

----------------------------------------------------------------------------
(* The inputs of process.                                                  *)

\* the registries of the example: group().merge(users).merge(misc)
users == add(<<>>, "a", <<"zod", "h2">>).methods
misc == add(<<>>, "b", <<"h1">>).methods
root == merge(merge(<<>>, users), misc)
rootSwapped == merge(merge(<<>>, misc), users)
\* two groups that both add "a", merged
shadowed == merge(users, add(<<>>, "a", <<"h1">>).methods)

AppGroups == {root, rootSwapped, shadowed}

Ids == {Undefined, "", "rpc_1", "rpc_2"}
RequestMethods == {"a", "b", "missing"}
RequestParams == {Undefined, "hi"}
Contexts == {"ctx"}

Requests ==
    [jsonrpc : {"2.0"}, method : RequestMethods, id : Ids, params : RequestParams]

NoRequest == [jsonrpc |-> "2.0", method |-> "", id |-> Undefined, params |-> Undefined]

HandlerActs ==
    {Resolve(v) : v \in {Undefined, "hi"}}
    \cup {ThrowNew(c, "boom") :
              c \in {CodeName("INTERNAL_ERROR"), CodeNum(MaxAppCode), CodeNum(MinAppCode)}}
    \cup {ThrowError("oops"), ThrowValue("oops")}

\* what the application's onError may do with the Error e
MapperOutcomes(e) ==
    {Fulfilled([code |-> MaxAppCode, message |-> e.message]),
     Fulfilled([code |-> MaxAppCode - 1, message |-> "mapped"]),
     Rejected(ErrorOf("onError failed"))}

\* no validator has been called yet
NoParse == [by |-> "none", threw |-> FALSE, value |-> Undefined]

Idle ==
    [pc |-> "idle", request |-> NoRequest, context |-> Undefined, method |-> 0,
     parsed |-> NoParse, invoked |-> "none",
     params |-> Undefined, data |-> [params |-> Undefined, context |-> Undefined],
     act |-> NoAct, run |-> Unsettled, errArg |-> NoError, mapped |-> Unsettled,
     ret |-> Unsettled, trace |-> <<>>]

----------------------------------------------------------------------------
(* The steps of one process call.                                          *)

\* process is called: lookup, validate and invoke run without suspension,
\* up to the first await
\* mutant: the handler is invoked with the raw params before the validator runs
Begin_invokeFirst(c, request, context) ==
    /\ calls[c].pc = "idle"
    /\ LET methods == app.config.group.methods
           i == find(methods, request.method)
           started == [calls[c] EXCEPT !.request = request, !.context = context,
                                       !.method = i]
       IN  IF i = 0
           THEN calls' = [calls EXCEPT ![c] =
                    [started EXCEPT !.pc = "done", !.trace = <<"find">>,
                                    !.ret = Fulfilled(methodNotFound(request))]]
           ELSE \E out \in parse(methods[i].schema, request.params) :
                    LET parsed == [by |-> methods[i].schema, threw |-> out.threw,
                                   value |-> out.value]
                        invoked == [started EXCEPT
                                        !.trace = <<"find", "handler", "parse">>,
                                        !.parsed = parsed,
                                        !.invoked = methods[i].handler,
                                        !.data = [params |-> request.params,
                                                  context |-> context]]
                    IN  IF out.threw
                        THEN calls' = [calls EXCEPT ![c] =
                                 [invoked EXCEPT !.pc = "done",
                                                 !.ret = Rejected(out.value)]]
                        ELSE calls' = [calls EXCEPT ![c] =
                                 [invoked EXCEPT !.pc = "awaitRun",
                                                 !.params = out.value]]
    /\ UNCHANGED <<arrs, lastOp, made, app>>

\* mutant: a notification returns null at once, the handler's promise is not
\* awaited
Begin_noAwait(c, request, context) ==
    /\ calls[c].pc = "idle"
    /\ LET methods == app.config.group.methods
           i == find(methods, request.method)
           started == [calls[c] EXCEPT !.request = request, !.context = context,
                                       !.method = i]
       IN  IF i = 0
           THEN calls' = [calls EXCEPT ![c] =
                    [started EXCEPT !.pc = "done", !.trace = <<"find">>,
                                    !.ret = Fulfilled(methodNotFound(request))]]
           ELSE \E out \in parse(methods[i].schema, request.params) :
                    LET parsed == [by |-> methods[i].schema, threw |-> out.threw,
                                   value |-> out.value]
                    IN  IF out.threw
                        THEN calls' = [calls EXCEPT ![c] =
                                 [started EXCEPT !.pc = "done",
                                                 !.trace = <<"find", "parse">>,
                                                 !.parsed = parsed,
                                                 !.ret = Rejected(out.value)]]
                        ELSE calls' = [calls EXCEPT ![c] =
                                 [started EXCEPT
                                      !.pc = IF request.id = Undefined THEN "done"
                                             ELSE "awaitRun",
                                      !.ret = IF request.id = Undefined
                                              THEN Fulfilled(NullResult) ELSE Unsettled,
                                      !.trace = <<"find", "parse", "handler">>,
                                      !.parsed = parsed,
                                      !.invoked = methods[i].handler,
                                      !.params = out.value,
                                      !.data = [params |-> out.value,
                                                context |-> context]]]
    /\ UNCHANGED <<arrs, lastOp, made, app>>

Begin(c, request, context) ==
    /\ calls[c].pc = "idle"
    /\ LET methods == app.config.group.methods
           i == find(methods, request.method)
           started == [calls[c] EXCEPT !.request = request, !.context = context,
                                       !.method = i]
       IN  IF i = 0
           THEN calls' = [calls EXCEPT ![c] =
                    [started EXCEPT !.pc = "done", !.trace = <<"find">>,
                                    !.ret = Fulfilled(methodNotFound(request))]]
           ELSE \E out \in parse(methods[i].schema, request.params) :
                    LET parsed == [by |-> methods[i].schema, threw |-> out.threw,
                                   value |-> out.value]
                    IN  IF out.threw
                        THEN calls' = [calls EXCEPT ![c] =
                                 [started EXCEPT !.pc = "done",
                                                 !.trace = <<"find", "parse">>,
                                                 !.parsed = parsed,
                                                 !.ret = Rejected(out.value)]]
                        ELSE calls' = [calls EXCEPT ![c] =
                                 [started EXCEPT !.pc = "awaitRun",
                                                 !.trace = <<"find", "parse", "handler">>,
                                                 !.parsed = parsed,
                                                 !.invoked = methods[i].handler,
                                                 !.params = out.value,
                                                 !.data = [params |-> out.value,
                                                           context |-> context]]]
    /\ UNCHANGED <<arrs, lastOp, made, app>>

\* the application's handler settles, and with it the wrapper's promise `run`
HandlerSettles(c, act) ==
    /\ calls[c].pc = "awaitRun"
    /\ calls[c].run.status = "pending"
    /\ calls' = [calls EXCEPT ![c].act = act, ![c].run = wrapper(handlerPromise(act))]
    /\ UNCHANGED <<arrs, lastOp, made, app>>

\* process resumes after `await run`
\* mutant: the request is kept in one place shared by all calls
ResumeRun_shared(c) ==
    /\ calls[c].pc = "awaitRun"
    /\ calls[c].run.status # "pending"
    /\ LET r == afterRun(calls[1].request, calls[c].run)
       IN  IF r.next = "onError"
           THEN calls' = [calls EXCEPT ![c].pc = "awaitOnError",
                                       ![c].errArg = r.arg,
                                       ![c].trace = Append(@, "onError")]
           ELSE calls' = [calls EXCEPT ![c].pc = "done", ![c].ret = r.ret]
    /\ UNCHANGED <<arrs, lastOp, made, app>>

\* mutant: a failed handler is called a second time
ResumeRun_retry(c) ==
    /\ calls[c].pc = "awaitRun"
    /\ calls[c].run.status # "pending"
    /\ LET r == afterRun(calls[c].request, calls[c].run)
           handlerCalls == Cardinality({k \in 1..Len(calls[c].trace) :
                                           calls[c].trace[k] = "handler"})
       IN  IF calls[c].run.status = "rejected" /\ handlerCalls < 2
           THEN calls' = [calls EXCEPT ![c].run = Unsettled,
                                       ![c].trace = Append(@, "handler")]
           ELSE IF r.next = "onError"
           THEN calls' = [calls EXCEPT ![c].pc = "awaitOnError",
                                       ![c].errArg = r.arg,
                                       ![c].trace = Append(@, "onError")]
           ELSE calls' = [calls EXCEPT ![c].pc = "done", ![c].ret = r.ret]
    /\ UNCHANGED <<arrs, lastOp, made, app>>

ResumeRun(c) ==
    /\ calls[c].pc = "awaitRun"
    /\ calls[c].run.status # "pending"
    /\ LET r == afterRun(calls[c].request, calls[c].run)
       IN  IF r.next = "onError"
           THEN calls' = [calls EXCEPT ![c].pc = "awaitOnError",
                                       ![c].errArg = r.arg,
                                       ![c].trace = Append(@, "onError")]
           ELSE calls' = [calls EXCEPT ![c].pc = "done", ![c].ret = r.ret]
    /\ UNCHANGED <<arrs, lastOp, made, app>>

\* the promise of app.config.onError(e) settles
OnErrorSettles(c) ==
    /\ calls[c].pc = "awaitOnError"
    /\ calls[c].mapped.status = "pending"
    /\ \E m \in MapperOutcomes(calls[c].errArg) :
           calls' = [calls EXCEPT ![c].mapped = m]
    /\ UNCHANGED <<arrs, lastOp, made, app>>

\* process resumes after `await app.config.onError(e)`
ResumeOnError(c) ==
    /\ calls[c].pc = "awaitOnError"
    /\ calls[c].mapped.status # "pending"
    /\ calls' = [calls EXCEPT ![c].pc = "done",
                              ![c].ret = afterOnError(calls[c].request, calls[c].mapped)]
    /\ UNCHANGED <<arrs, lastOp, made, app>>

\* after app({ group, onError }): the setup phase is over
Init ==
    /\ arrs = <<>>
    /\ lastOp = NoOp
    /\ made = NoMade
    /\ app \in {[config |-> [group |-> [methods |-> g]]] : g \in AppGroups}
    /\ calls = [c \in 1..MaxCalls |-> Idle]

Next ==
    \/ \E c \in DOMAIN calls, request \in Requests, context \in Contexts :
           Begin(c, request, context)
    \/ \E c \in DOMAIN calls, act \in HandlerActs : HandlerSettles(c, act)
    \/ \E c \in DOMAIN calls : ResumeRun(c)
    \/ \E c \in DOMAIN calls : OnErrorSettles(c)
    \/ \E c \in DOMAIN calls : ResumeOnError(c)

Spec == Init /\ [][Next]_vars

----------------------------------------------------------------------------
(* Concurrent process calls on one app.                                    *)

\* the requests of the concurrent calls: a method without validator and an
\* unknown one, as notification and with two different ids
ConcRequests ==
    {r \in Requests : /\ r.method \in {"b", "missing"}
                      /\ r.id \in {Undefined, "rpc_1", "rpc_2"}
                      /\ r.params = "hi"}

InitConc ==
    /\ arrs = <<>>
    /\ lastOp = NoOp
    /\ made = NoMade
    /\ app = [config |-> [group |-> [methods |-> root]]]
    /\ calls = [c \in 1..MaxConc |-> Idle]

NextConc ==
    \/ \E c \in DOMAIN calls, request \in ConcRequests, context \in Contexts :
           Begin(c, request, context)
    \/ \E c \in DOMAIN calls, act \in HandlerActs : HandlerSettles(c, act)
    \/ \E c \in DOMAIN calls : ResumeRun(c)
    \/ \E c \in DOMAIN calls : OnErrorSettles(c)
    \/ \E c \in DOMAIN calls : ResumeOnError(c)

SpecConc == InitConc /\ [][NextConc]_vars

----------------------------------------------------------------------------
(* Properties.                                                             *)

Done(c) == calls[c].pc = "done"
NotFound(c) == Done(c) /\ calls[c].method = 0
Invoked(c) == \E k \in 1..Len(calls[c].trace) : calls[c].trace[k] = "handler"
ValidatorThrew(c) == Done(c) /\ calls[c].method # 0 /\ ~Invoked(c)
HasId(c) == calls[c].request.id # Undefined

\* C1: a request without id whose method is unknown, or whose handler was
\* invoked and resolved or failed with any value, never settles process with
\* anything but null: no rejection reaches the caller, and once the call is
\* over process has resolved to null.
C1_NotificationResolvesNull ==
    \A c \in DOMAIN calls :
        (calls[c].pc # "idle" /\ ~HasId(c) /\ (NotFound(c) \/ Invoked(c)))
            => /\ calls[c].ret.status # "rejected"
               /\ Done(c) => calls[c].ret = Fulfilled(NullResult)

\* a notification whose handler threw an Error is over, with null
C1_Witness ==
    \E c \in DOMAIN calls :
        /\ Done(c) /\ ~HasId(c)
        /\ calls[c].act = ThrowError("oops")
        /\ calls[c].ret = Fulfilled(NullResult)

\* C2: a failure of the validator (schema.parse throws) never escapes process:
\* with an id the call resolves to an error reply, without one to null.
\* Stated for a registry whose names are all different.
C2_ValidatorFailureIsMapped ==
    \A c \in DOMAIN calls :
        (ValidatorThrew(c) /\ Unique(app.config.group.methods))
            => /\ calls[c].ret.status = "fulfilled"
               /\ ~HasId(c) => calls[c].ret.value = NullResult
               /\ HasId(c) => DOMAIN calls[c].ret.value = {"jsonrpc", "id", "error"}

\* C3: an unknown method on a request with an id, whatever string the id is,
\* resolves to the METHOD_NOT_FOUND reply with that id, and nothing but the
\* lookup has run.
C3_UnknownMethodReply ==
    \A c \in DOMAIN calls :
        (NotFound(c) /\ HasId(c))
            => /\ calls[c].ret =
                      Fulfilled([jsonrpc |-> "2.0", id |-> calls[c].request.id,
                                 error |-> [code |-> -32601,
                                            message |-> "Method not found"]])
               /\ calls[c].trace = <<"find">>

\* C4: a handler that throws new LiteRPCError(name, m) with a symbolic name of
\* the protocol-code table, on a request with an id, yields the error reply
\* with that name's code and the message m, and onError is not called.
\* Stated for the plainest inputs: a non-empty id, a registry whose names are
\* all different.
C4_SymbolicNameReply ==
    \A c \in DOMAIN calls :
        (Done(c) /\ Truthy(calls[c].request.id)
                 /\ Unique(app.config.group.methods)
                 /\ calls[c].act.kind = "throwNew"
                 /\ calls[c].act.code.type = "string")
            => /\ calls[c].ret =
                      Fulfilled([jsonrpc |-> "2.0", id |-> calls[c].request.id,
                                 error |-> [code |-> RPCErrorCodes[calls[c].act.code.name],
                                            message |-> calls[c].act.message]])
               /\ \A k \in 1..Len(calls[c].trace) : calls[c].trace[k] # "onError"

\* C5: merge throws whenever a name occurs in both registries.
\* Stated for two different registries, each without a duplicate of its own.
C5_MergeRejectsDuplicates ==
    (lastOp.op = "merge" /\ lastOp.recv # lastOp.other
        /\ Unique(arrs[lastOp.recv]) /\ Unique(arrs[lastOp.other])
        /\ Names(arrs[lastOp.recv]) \cap Names(arrs[lastOp.other]) # {})
        => lastOp.threw

\* C6: add throws, and returns no registry, exactly when the receiving registry
\* holds the name at some position; otherwise it returns the old descriptors
\* followed by one descriptor with the new name.
C6_AddRejectsDuplicates ==
    lastOp.op = "add"
        => LET old == arrs[lastOp.recv]
           IN  /\ lastOp.threw <=> lastOp.name \in Names(old)
               /\ lastOp.threw => lastOp.ret = 0
               /\ ~lastOp.threw
                      => /\ lastOp.ret = Len(arrs)
                         /\ lastOp.ret # lastOp.recv
                         /\ Len(arrs[lastOp.ret]) = Len(old) + 1
                         /\ SubSeq(arrs[lastOp.ret], 1, Len(old)) = old
                         /\ arrs[lastOp.ret][Len(old) + 1].name = lastOp.name

\* add threw for a name held at the first position of a longer registry
C6_Witness ==
    /\ lastOp.op = "add" /\ lastOp.threw
    /\ Len(arrs[lastOp.recv]) >= 2
    /\ arrs[lastOp.recv][1].name = lastOp.name
    /\ arrs[lastOp.recv][Len(arrs[lastOp.recv])].name # lastOp.name

\* C7: no registry built from group() by add and merge holds a name twice.
C7_NamesUnique ==
    \A g \in 1..Len(arrs) : Unique(arrs[g])

\* C8: with a raw integer code c the constructor succeeds exactly when
\* -32099 <= c <= -32000, and every instance carries a code of that range.
C8_RawCodeRange ==
    made.value.class # "none"
        => /\ made.code.type = "number"
                  => /\ made.threw <=> ~(-32099 <= made.code.num /\ made.code.num <= -32000)
                     /\ ~made.threw => made.value = LiteRPCErrorOf(made.code.num, made.message)
           /\ ~made.threw
                  => /\ made.value.class = "LiteRPCError"
                     /\ -32099 <= made.value.code /\ made.value.code <= -32000
           /\ made.threw => made.value.class = "Error"

\* the constructor succeeded with the code -32000
C8_Witness ==
    /\ made.code = CodeNum(-32000)
    /\ ~made.threw
    /\ made.value.code = -32000

\* C9: a handler that resolves with v on a request with an id yields the
\* success reply with that id and result v, null for undefined; the result
\* is never undefined.
C9_SuccessReply ==
    \A c \in DOMAIN calls :
        (Done(c) /\ HasId(c) /\ calls[c].act.kind = "resolve")
            => /\ calls[c].ret =
                      Fulfilled([jsonrpc |-> "2.0", id |-> calls[c].request.id,
                                 result |-> IF calls[c].act.value = Undefined
                                            THEN Null ELSE calls[c].act.value])
               /\ calls[c].ret.value.result # Undefined

\* a handler resolved with undefined and the reply carries null
C9_Witness ==
    \E c \in DOMAIN calls :
        /\ Done(c) /\ calls[c].request.id = "rpc_1"
        /\ calls[c].act = Resolve(Undefined)
        /\ calls[c].ret.value.result = Null

\* C10: a handler that throws a LiteRPCError with code k and message m on a
\* request with an id yields the error reply with exactly k, m and the id,
\* and onError is not called.
C10_LiteRPCErrorVerbatim ==
    \A c \in DOMAIN calls :
        (Done(c) /\ HasId(c) /\ Invoked(c) /\ calls[c].run.status = "rejected"
                 /\ calls[c].run.reason.class = "LiteRPCError")
            => /\ calls[c].ret =
                      Fulfilled([jsonrpc |-> "2.0", id |-> calls[c].request.id,
                                 error |-> [code |-> calls[c].run.reason.code,
                                            message |-> calls[c].run.reason.message]])
               /\ (calls[c].act.kind = "throwNew" /\ calls[c].act.code.type = "number")
                      => /\ calls[c].ret.value.error.code = calls[c].act.code.num
                         /\ calls[c].ret.value.error.message = calls[c].act.message
               /\ \A k \in 1..Len(calls[c].trace) : calls[c].trace[k] # "onError"

\* the handler threw new LiteRPCError(-32099, "boom") and the reply carries it
C10_Witness ==
    \E c \in DOMAIN calls :
        /\ Done(c) /\ calls[c].request.id = "rpc_1"
        /\ calls[c].act = ThrowNew(CodeNum(-32099), "boom")
        /\ calls[c].ret.value.error = [code |-> -32099, message |-> "boom"]

\* how often the event e occurs in the trace of call c
Count(c, e) == Cardinality({k \in 1..Len(calls[c].trace) : calls[c].trace[k] = e})

\* the handler of call c failed with an Error that is no LiteRPCError
FailedWithError(c) ==
    /\ Invoked(c) /\ calls[c].run.status = "rejected"
    /\ calls[c].run.reason.class = "Error"

\* C11: when the handler of a request with an id fails with an Error that is
\* no LiteRPCError, onError is called exactly once, with that failure, and
\* process resolves to the reply whose error is exactly what the mapper
\* returned, with the request's id.
C11_MapperDecidesReply ==
    \A c \in DOMAIN calls :
        (HasId(c) /\ FailedWithError(c) /\ calls[c].pc # "awaitRun")
            => /\ Count(c, "onError") = 1
               /\ calls[c].errArg = calls[c].run.reason
               /\ (Done(c) /\ calls[c].mapped.status = "fulfilled")
                      => calls[c].ret =
                             Fulfilled([jsonrpc |-> "2.0", id |-> calls[c].request.id,
                                        error |-> calls[c].mapped.value])

\* the handler threw Error("oops"), the mapper answered, the reply carries it
C11_Witness ==
    \E c \in DOMAIN calls :
        /\ Done(c) /\ calls[c].request.id = "rpc_1"
        /\ calls[c].act = ThrowError("oops")
        /\ calls[c].mapped = Fulfilled([code |-> -32001, message |-> "mapped"])
        /\ calls[c].ret.value.error = [code |-> -32001, message |-> "mapped"]

\* C12: when the handler of a request with an id fails with a value that is
\* no Error object, process resolves to the reply with code -32603 and the
\* message "Something went wrong", and onError is never called.
C12_NonErrorFallback ==
    \A c \in DOMAIN calls :
        (HasId(c) /\ Invoked(c) /\ calls[c].run.status = "rejected"
                  /\ calls[c].run.reason.class = "NonError")
            => /\ Count(c, "onError") = 0
               /\ calls[c].pc \in {"awaitRun", "done"}
               /\ Done(c)
                      => calls[c].ret =
                             Fulfilled([jsonrpc |-> "2.0", id |-> calls[c].request.id,
                                        error |-> [code |-> -32603,
                                                   message |-> "Something went wrong"]])

\* the handler threw the string "oops" and the reply is the internal error
C12_Witness ==
    \E c \in DOMAIN calls :
        /\ Done(c) /\ calls[c].request.id = "rpc_1"
        /\ calls[c].act = ThrowValue("oops")
        /\ calls[c].ret.value.error.code = -32603

C14_NullIffNotification ==
    \A c \in DOMAIN calls :
        (Done(c) /\ calls[c].ret.status = "fulfilled")
            => (calls[c].ret.value = NullResult <=> ~HasId(c))

\* C15: every value other than null that process resolves to is a reply with
\* jsonrpc "2.0", the id of the request, and exactly one of result and error.
C15_EnvelopeShape ==
    \A c \in DOMAIN calls :
        (calls[c].ret.status = "fulfilled" /\ calls[c].ret.value # NullResult)
            => /\ \/ DOMAIN calls[c].ret.value = {"jsonrpc", "id", "result"}
                  \/ DOMAIN calls[c].ret.value = {"jsonrpc", "id", "error"}
               /\ calls[c].ret.value.jsonrpc = "2.0"
               /\ calls[c].ret.value.id = calls[c].request.id
               /\ "error" \in DOMAIN calls[c].ret.value
                      => DOMAIN calls[c].ret.value.error = {"code", "message"}

\* a call resolved to an error reply for its request "rpc_2"
C15_Witness ==
    \E c \in DOMAIN calls :
        /\ Done(c) /\ calls[c].request.id = "rpc_2"
        /\ calls[c].ret.status = "fulfilled"
        /\ DOMAIN calls[c].ret.value = {"jsonrpc", "id", "error"}
        /\ calls[c].act = ThrowNew(CodeNum(-32000), "boom")

\* what the call c resolves to when it runs alone with its own request, its
\* validator's, handler's and mapper's outcomes
AloneResult(c) ==
    LET req == calls[c].request
        i == find(root, req.method)
    IN  IF i = 0 THEN Fulfilled(methodNotFound(req))
        ELSE LET r == afterRun(req, wrapper(handlerPromise(calls[c].act)))
             IN  IF r.next = "return" THEN r.ret
                 ELSE IF calls[c].mapped.status = "pending" THEN Unsettled
                 ELSE afterOnError(req, calls[c].mapped)

\* a step changes the record of one call at most, and never the registry
OneCallSteps ==
    /\ app' = app
    /\ \A c, d \in DOMAIN calls :
           (calls'[c] # calls[c] /\ calls'[d] # calls[d]) => c = d

\* C16: concurrent process calls are independent: under every interleaving
\* each call resolves to what it would resolve to alone, each reply carries
\* its own request's id, no step of one call touches another call, and the
\* registry's descriptor list stays what it was.
C16_CallsIndependent ==
    /\ [](\A c \in DOMAIN calls :
              /\ app.config.group.methods = root
              /\ Done(c) => calls[c].ret = AloneResult(c)
              /\ (Done(c) /\ calls[c].ret.status = "fulfilled"
                          /\ calls[c].ret.value # NullResult)
                     => calls[c].ret.value.id = calls[c].request.id)
    /\ [][OneCallSteps]_vars

\* call 2 has replied to "rpc_2" while call 1, for "rpc_1", awaits its handler
C16_Witness ==
    /\ calls[1].pc = "awaitRun" /\ calls[1].request.id = "rpc_1"
    /\ Done(2)
    /\ calls[2].request.id = "rpc_2"
    /\ calls[2].ret.status = "fulfilled"
    /\ calls[2].ret.value.id = "rpc_2"

\* the registries built so far, as pairs and triples with different names
Disjoint(m, n) == Names(m) \cap Names(n) = {}

\* C17: merging registries with disjoint names succeeds and yields the union
\* of the names; for the set of names merge is commutative and associative.
C17_MergeNameSet ==
    /\ (lastOp.op = "merge" /\ Disjoint(arrs[lastOp.recv], arrs[lastOp.other]))
           => /\ ~lastOp.threw
              /\ Names(arrs[lastOp.ret]) =
                     Names(arrs[lastOp.recv]) \cup Names(arrs[lastOp.other])
    /\ \A g, o \in 1..Len(arrs) :
           Disjoint(arrs[g], arrs[o])
               => /\ Names(merge(arrs[g], arrs[o])) = Names(arrs[g]) \cup Names(arrs[o])
                  /\ Names(merge(arrs[g], arrs[o])) = Names(merge(arrs[o], arrs[g]))
    /\ \A g, o, q \in 1..Len(arrs) :
           (Disjoint(arrs[g], arrs[o]) /\ Disjoint(arrs[g], arrs[q])
                /\ Disjoint(arrs[o], arrs[q]))
               => Names(merge(merge(arrs[g], arrs[o]), arrs[q]))
                      = Names(merge(arrs[g], merge(arrs[o], arrs[q])))

\* the last call merged two registries that hold one different name each
C17_Witness ==
    /\ lastOp.op = "merge" /\ ~lastOp.threw
    /\ arrs[lastOp.recv] # <<>> /\ arrs[lastOp.other] # <<>>
    /\ Disjoint(arrs[lastOp.recv], arrs[lastOp.other])
    /\ Cardinality(Names(arrs[lastOp.ret])) = 2

\* an add or merge call leaves every array that exists as it is, and what it
\* returns is a new array
NoMutation ==
    /\ Len(arrs') >= Len(arrs)
    /\ \A g \in 1..Len(arrs) : arrs'[g] = arrs[g]
    /\ lastOp'.threw => arrs' = arrs
    /\ ~lastOp'.threw => (lastOp'.ret = Len(arrs) + 1 /\ Len(arrs') = Len(arrs) + 1)

\* C18: add and merge never mutate their inputs: after an add, successful or
\* failing, and after a merge, the descriptor list of the receiver, of the
\* argument and of every other registry is what it was before, and the
\* registry returned is a new one.
C18_InputsUntouched == [][NoMutation]_vars

\* add returned a new registry for a receiver that held a descriptor already
C18_Witness ==
    /\ lastOp.op = "add" /\ ~lastOp.threw
    /\ Len(arrs[lastOp.recv]) = 1
    /\ Len(arrs[lastOp.ret]) = 2
    /\ lastOp.name \notin Names(arrs[lastOp.recv])

\* the descriptor process selects for a method name, if any
Selected(methods, name) ==
    IF find(methods, name) = 0 THEN <<>> ELSE <<methods[find(methods, name)]>>

\* C19: the order of the descriptors does not matter to the lookup: A.merge(B)
\* and B.merge(A) select the same descriptor for every method name.
\* Stated for registries A and B without a duplicate of their own.
C19_OrderIrrelevant ==
    \A g, o \in 1..Len(arrs) :
        (Unique(arrs[g]) /\ Unique(arrs[o]))
            => \A name \in MethodNames \cup {"missing"} :
                   Selected(merge(arrs[g], arrs[o]), name)
                       = Selected(merge(arrs[o], arrs[g]), name)

Places(c, e) == {k \in 1..Len(calls[c].trace) : calls[c].trace[k] = e}

\* C21: within one process call the order is lookup, validate, invoke: a
\* handler is invoked only after the validator of the descriptor the lookup
\* found has returned, it is that descriptor's handler, it receives the
\* validator's output as params and the caller's context as it was passed, and
\* no handler is invoked when the validator throws or no method is found.
C21_PipelineOrder ==
    \A c \in DOMAIN calls :
        LET methods == app.config.group.methods
            call == calls[c]
        IN  /\ call.pc # "idle" => call.trace[1] = "find"
            /\ call.pc # "idle" => call.method = find(methods, call.request.method)
            /\ \A k \in Places(c, "parse") :
                   /\ k = 2
                   /\ call.method # 0
                   /\ call.parsed.by = methods[call.method].schema
            /\ \A k \in Places(c, "handler") :
                   /\ k = 3 /\ Places(c, "parse") = {2}
                   /\ ~call.parsed.threw
                   /\ call.invoked = methods[call.method].handler
                   /\ call.data.params = call.parsed.value
                   /\ call.data.context = call.context
            /\ (call.method = 0 \/ call.parsed.threw)
                   => /\ Places(c, "handler") = {}
                      /\ call.invoked = "none"
                      /\ call.run = Unsettled /\ call.act = NoAct

\* the validator of "a" turned the params "hi" into "parsed", and the handler
\* of "a" was invoked with "parsed" and the context
C21_Witness ==
    \E c \in DOMAIN calls :
        /\ calls[c].trace = <<"find", "parse", "handler">>
        /\ calls[c].request.method = "a" /\ calls[c].request.params = "hi"
        /\ calls[c].parsed = [by |-> "zod", threw |-> FALSE, value |-> "parsed"]
        /\ calls[c].invoked = "h2"
        /\ calls[c].data = [params |-> "parsed", context |-> "ctx"]

\* C22: for a request without id whose method is found, process is settled
\* with null only in states where the handler's promise has settled already,
\* with a value or a failure; the handler's value is not in what process
\* returns, and onError is never called.
C22_NotificationAwaitsHandler ==
    \A c \in DOMAIN calls :
        (calls[c].pc # "idle" /\ ~HasId(c) /\ calls[c].method # 0)
            => /\ calls[c].ret.status = "fulfilled"
                      => /\ Invoked(c)
                         /\ calls[c].run.status # "pending"
                         /\ calls[c].ret.value = NullResult
               /\ (Invoked(c) /\ calls[c].run.status = "pending")
                      => /\ calls[c].pc = "awaitRun"
                         /\ calls[c].ret = Unsettled
               /\ Places(c, "onError") = {}
               /\ calls[c].pc # "awaitOnError"
               /\ calls[c].errArg = NoError
               /\ calls[c].mapped = Unsettled

\* a notification for "a" is over with null after its handler's promise was
\* rejected with an Error, and onError was not called
C22_Witness ==
    \E c \in DOMAIN calls :
        /\ Done(c) /\ ~HasId(c) /\ calls[c].request.method = "a"
        /\ calls[c].run = Rejected(ErrorOf("oops"))
        /\ calls[c].ret = Fulfilled(NullResult)
        /\ calls[c].mapped = Unsettled

====
